---- MODULE Spec2Model ----
(***************************************************************************)
(* Model of src/core/Limit.cpp: one price level (Limit) of the order book, *)
(* its FIFO of resting orders, and the matching of an incoming taker       *)
(* (processFill) with the execution records it produces (logExecution).    *)
(***************************************************************************)
EXTENDS Integers, Sequences, FiniteSets, TLC

\* ---------------------------------------------------------------- bounds
\* ids handed out by the IdSequence (resting orders and takers together)
MaxId == 3
\* largest share quantity of an incoming OrderData
MaxShares == 3
\* number of distinct clients
NumClients == 2

\* the price levels of the book that are modelled (one Limit per price)
LimitPrices == {100, 101}
\* limit prices an incoming taker may carry
TakerLimits == {100}
Clients == 1..NumClients
\* share quantities of an order that rests, and of a taker (which may exceed
\* every single resting order)
ShareQtys == 1..MaxShares
TakerShareQtys == 1..(MaxShares + 1)

\* nullptr
Null == 0

VARIABLES
    limits,        \* limitPrice -> Limit object (size, totalVolume, headOrder, tailOrder)
    orders,        \* orderId -> Order object (the heap of Orders created so far)
    allOrders,     \* Book::allOrders: ids of the orders registered in the book
    executions,    \* Book's execution queue, oldest first
    takerData,     \* the OrderData of the taker handed to processFill (mutated in place)
    takerOrderId,  \* the order id of that taker
    nextId,        \* next id of the IdSequence
    fillLog,       \* history: for each execution, the quantities just before the fill
    restedQty,     \* history: orderId -> executedQuantity + shares when the order was added
    call           \* history: the last operation, its outcome and the state it started from

vars == <<limits, orders, allOrders, executions, takerData, takerOrderId, nextId, fillLog,
          restedQty, call>>

\* ------------------------------------------------------- exact fractions
\* Quotients are written as exact fractions [num, den] in lowest terms, so
\* that a stored average can be compared with the exact ratio.
RECURSIVE GCD(_, _)
GCD(a, b) == IF b = 0 THEN a ELSE GCD(b, a % b)

Frac(n, d) == LET g == GCD(n, d) IN IF g = 0 THEN [num |-> 0, den |-> 1]
                                    ELSE [num |-> n \div g, den |-> d \div g]
FracInt(n) == [num |-> n, den |-> 1]
\* k * f + n
FracMulAdd(k, f, n) == Frac(k * f.num + n * f.den, f.den)
\* f / k
FracDiv(f, k) == Frac(f.num, f.den * k)

Min(a, b) == IF a <= b THEN a ELSE b

\* ---------------------------------------------------------------- types
\* A fresh OrderData as a session submits it.
OrderData(clientId, side, shares, limit) ==
    [clientId |-> clientId, orderSide |-> side, shares |-> shares, limit |-> limit,
     executedQuantity |-> 0, avgPrice |-> FracInt(0)]

NoOrderData == OrderData(0, "Sell", 0, 0)

\* Order::Order(orderData, parentLimit, newOrderId)
NewOrder(orderData, parentLimit, newOrderId) ==
    [orderId |-> newOrderId, clientId |-> orderData.clientId,
     orderSide |-> orderData.orderSide, shares |-> orderData.shares,
     limit |-> orderData.limit, executedQuantity |-> orderData.executedQuantity,
     avgPrice |-> orderData.avgPrice, parentLimit |-> parentLimit,
     nextOrder |-> Null, prevOrder |-> Null]

\* Limit::Limit(limitPrice)
NewLimit(limitPrice) ==
    [limitPrice |-> limitPrice, size |-> 0, totalVolume |-> 0,
     headOrder |-> Null, tailOrder |-> Null]

\* Book::addOrderToAllOrders
addOrderToAllOrders(all, orderId) == all \cup {orderId}

\* Book::getNextExecutionId
getNextExecutionId(execs) == Len(execs) + 1

\* addOrderToLimit that links the new order in front of the head
addOrderToLimitAtHead(lim, ord, orderData, newOrderId) ==
    LET newOrder == NewOrder(orderData, lim.limitPrice, newOrderId)
        lim1 == [lim EXCEPT !.totalVolume = @ + orderData.shares, !.size = @ + 1]
    IN IF lim.headOrder = Null
       THEN [lim |-> [lim1 EXCEPT !.headOrder = newOrderId, !.tailOrder = newOrderId],
             ord |-> ord @@ (newOrderId :> newOrder)]
       ELSE [lim |-> [lim1 EXCEPT !.headOrder = newOrderId],
             ord |-> [ord EXCEPT ![lim.headOrder].prevOrder = newOrderId]
                     @@ (newOrderId :> [newOrder EXCEPT !.nextOrder = lim.headOrder])]

\* ------------------------------------------------------ addOrderToLimit
\* The body of Limit::addOrderToLimit on this Limit (lim) and the heap (ord).
\* Returns the new Limit and the new heap.
addOrderToLimit(lim, ord, orderData, newOrderId) ==
    LET newOrder == NewOrder(orderData, lim.limitPrice, newOrderId)
        lim1 == [lim EXCEPT !.totalVolume = @ + orderData.shares, !.size = @ + 1]
    IN IF lim.headOrder = Null
       THEN [lim |-> [lim1 EXCEPT !.headOrder = newOrderId, !.tailOrder = newOrderId],
             ord |-> ord @@ (newOrderId :> newOrder)]
       ELSE [lim |-> [lim1 EXCEPT !.tailOrder = newOrderId],
             ord |-> [ord EXCEPT ![lim.tailOrder].nextOrder = newOrderId]
                     @@ (newOrderId :> [newOrder EXCEPT !.prevOrder = lim.tailOrder])]

\* --------------------------------------------------------- logExecution
\* lines 94-95: the execution types of the two sides
TakerExecutionType(remainingTakerShares) ==
    IF remainingTakerShares = 0 THEN "FullFill" ELSE "PartialFill"

\* the maker's execution type decided by the wrong comparison
MakerExecutionTypeAtMost(executionVolume, makerShares) ==
    IF executionVolume <= makerShares THEN "FullFill" ELSE "PartialFill"

MakerExecutionType(executionVolume, makerShares) ==
    IF executionVolume = makerShares THEN "FullFill" ELSE "PartialFill"

\* The value an avgPrice field holds for the quotient f: avgPrice is held in
\* the integer price unit of the book (ticks), and C++ division of
\* non-negative integers truncates.
AvgPriceValue(f) == FracInt(f.num \div f.den)

\* lines 100-101: the running update of an average price,
\* (executedQuantity * avgPrice + executionVolume * limit) / totalExecQty
NewAvgPrice(executedQuantity, avgPrice, executionVolume, limit, totalExecQty) ==
    AvgPriceValue(FracDiv(FracMulAdd(executedQuantity, avgPrice, executionVolume * limit),
                          totalExecQty))

\* Execution::Execution: the fields in the order in which the record
\* enumerates them (the symbol, the same in every record, is left out)
Execution(executionId, makerOrderId, takerId, execPrice, execSize, makerSide, takerSide, makerExecType, takerExecType, makerClientId, takerClientId, makerCumQty, takerCumQty, makerLeavesQty, takerLeavesQty, makerAvgPrice, takerAvgPrice) ==
    [executionId    |-> executionId,
     makerOrderId   |-> makerOrderId,
     takerOrderId   |-> takerId,
     execPrice      |-> execPrice,
     execSize       |-> execSize,
     makerSide      |-> makerSide,
     takerSide      |-> takerSide,
     makerExecType  |-> makerExecType,
     takerExecType  |-> takerExecType,
     makerClientId  |-> makerClientId,
     takerClientId  |-> takerClientId,
     makerCumQty    |-> makerCumQty,
     takerCumQty    |-> takerCumQty,
     makerLeavesQty |-> makerLeavesQty,
     takerLeavesQty |-> takerLeavesQty,
     makerAvgPrice  |-> makerAvgPrice,
     takerAvgPrice  |-> takerAvgPrice]

\* Limit::logExecution on the loop state s (maker = s.nxtOrder): updates the
\* maker's and the taker's average price and executed quantity and appends
\* the Execution to the queue.
logExecution(s, executionVolume, takerId) ==
    LET makerOrder == s.ord[s.nxtOrder]
        tk == s.taker
        remainingTakerShares == tk.shares - executionVolume
        remainingMakerShares == makerOrder.shares - executionVolume
        takerExecutionType == TakerExecutionType(remainingTakerShares)
        makerExecutionType == MakerExecutionType(executionVolume, makerOrder.shares)
        makerTotalExecQty == makerOrder.executedQuantity + executionVolume
        takerTotalExecQty == tk.executedQuantity + executionVolume
        makerAvg == NewAvgPrice(makerOrder.executedQuantity, makerOrder.avgPrice,
                                executionVolume, makerOrder.limit, makerTotalExecQty)
        takerAvg == NewAvgPrice(tk.executedQuantity, tk.avgPrice,
                                executionVolume, makerOrder.limit, takerTotalExecQty)
        \* lines 106-125: the arguments in the order in which they are passed
        execution ==
            Execution(getNextExecutionId(s.execs),
                      makerOrder.orderId,
                      takerId,
                      makerOrder.limit,
                      executionVolume,
                      makerOrder.orderSide,
                      tk.orderSide,
                      makerExecutionType,
                      takerExecutionType,
                      tk.clientId,
                      makerOrder.clientId,
                      makerTotalExecQty,
                      takerTotalExecQty,
                      remainingMakerShares,
                      remainingTakerShares,
                      makerAvg,
                      takerAvg)
    IN [s EXCEPT
          !.ord[s.nxtOrder].avgPrice = makerAvg,
          !.ord[s.nxtOrder].executedQuantity = makerTotalExecQty,
          !.taker.avgPrice = takerAvg,
          !.taker.executedQuantity = tk.executedQuantity + executionVolume,
          !.execs = Append(@, execution),
          !.log = Append(@, [makerShares |-> makerOrder.shares,
                             takerShares |-> tk.shares,
                             makerLimit  |-> makerOrder.limit,
                             takerLimit  |-> tk.limit,
                             makerClient |-> makerOrder.clientId,
                             takerClient |-> tk.clientId])]

\* ----------------------------------------------------------- processFill
\* the self-trade test with the comparison inverted
IsSelfTradeInverted(takerClientId, makerClientId) == takerClientId /= makerClientId

\* line 56: the self-trade test
IsSelfTrade(takerClientId, makerClientId) == takerClientId = makerClientId

\* the volume of one fill taken from the maker alone
ExecutionVolumeOfMaker(orderShares, takerShares) == orderShares

\* line 61: the volume of one fill
ExecutionVolume(orderShares, takerShares) == Min(orderShares, takerShares)

\* decreaseSize that counts the removed order twice
decreaseSizeTwice(size) == IF size > 1 THEN size - 2 ELSE 0

\* decreaseSize that leaves the count alone
decreaseSizeKeeps(size) == size

\* Limit::decreaseSize
decreaseSize(size) == IF size > 0 THEN size - 1 ELSE size

\* the complete fill that zeroes the maker's shares and counts it out but
\* does not move on to the next order
FillMakerFullyStay(s, orderShares) ==
    [s EXCEPT !.taker.shares = @ - orderShares,
              !.lim.size = decreaseSize(@),
              !.ord[s.nxtOrder].shares = 0]

\* the complete fill that advances the cursor but not headOrder
FillMakerFullyKeepHead(s, orderShares) ==
    [s EXCEPT !.taker.shares = @ - orderShares,
              !.lim.size = decreaseSize(@),
              !.nxtOrder = s.ord[s.nxtOrder].nextOrder]

\* lines 67-71: the maker is filled completely
FillMakerFully(s, orderShares) ==
    LET nxt == s.ord[s.nxtOrder].nextOrder
    IN [s EXCEPT !.taker.shares = @ - orderShares,
                 !.lim.size = decreaseSize(@),
                 !.nxtOrder = nxt,
                 !.lim.headOrder = nxt]

\* the partial fill that leaves the maker one share short
FillMakerPartiallyOffByOne(s, orderShares, executionVolume) ==
    [s EXCEPT !.ord[s.nxtOrder].shares = orderShares - executionVolume - 1,
              !.taker.shares = @ - executionVolume]

\* the partial fill that forgets to write the maker's remaining shares
FillMakerPartiallyKeepMaker(s, orderShares, executionVolume) ==
    [s EXCEPT !.taker.shares = @ - executionVolume]

\* the partial fill that writes the remaining shares to the order behind
FillMakerPartiallyOnNext(s, orderShares, executionVolume) ==
    LET behind == s.ord[s.nxtOrder].nextOrder
        target == IF behind = Null THEN s.nxtOrder ELSE behind
    IN [s EXCEPT !.ord[target].shares = orderShares - executionVolume,
                 !.taker.shares = @ - executionVolume]

\* the partial fill that forgets to take the volume off the taker
FillMakerPartiallyKeepTaker(s, orderShares, executionVolume) ==
    [s EXCEPT !.ord[s.nxtOrder].shares = orderShares - executionVolume]

\* lines 72-75: the maker is filled in part
FillMakerPartially(s, orderShares, executionVolume) ==
    [s EXCEPT !.ord[s.nxtOrder].shares = orderShares - executionVolume,
              !.taker.shares = @ - executionVolume]

\* lines 54-76: the while loop of Limit::processFill, from loop state s to
\* the state in which it exits or throws.
RECURSIVE FillLoop(_, _)
FillLoop(s, takerId) ==
    IF ~(s.nxtOrder /= Null /\ s.lim.size /= 0 /\ s.taker.shares /= 0)
    THEN s
    ELSE IF IsSelfTrade(s.taker.clientId, s.ord[s.nxtOrder].clientId)
    THEN [s EXCEPT !.thrown = TRUE, !.iterations = @ + 1]
    ELSE LET orderShares == s.ord[s.nxtOrder].shares
             executionVolume == ExecutionVolume(orderShares, s.taker.shares)
             s1 == logExecution(s, executionVolume, takerId)
             s2 == [s1 EXCEPT !.lim.totalVolume = @ - executionVolume,
                              !.iterations = @ + 1]
         IN IF executionVolume >= orderShares
            THEN FillLoop(FillMakerFully(s2, orderShares), takerId)
            ELSE FillLoop(FillMakerPartially(s2, orderShares, executionVolume), takerId)

\* Limit::processFill(takerData, orderId, book) on the Limit lim
processFill(lim, ord, execs, log, taker, takerId) ==
    FillLoop([lim |-> lim, ord |-> ord, execs |-> execs, log |-> log,
              taker |-> taker, nxtOrder |-> lim.headOrder,
              thrown |-> FALSE, iterations |-> 0], takerId)

\* ------------------------------------------------------------- the system
Snapshot == [limits |-> limits, orders |-> orders, takerData |-> takerData,
             executions |-> executions, allOrders |-> allOrders]

Init ==
    /\ limits = [p \in LimitPrices |-> NewLimit(p)]
    /\ orders = << >>
    /\ allOrders = {}
    /\ executions = << >>
    /\ takerData = NoOrderData
    /\ takerOrderId = Null
    /\ nextId = 1
    /\ fillLog = << >>
    /\ restedQty = << >>
    /\ call = [op |-> "none", limit |-> 0, thrown |-> FALSE, iterations |-> 0,
               pre |-> [limits |-> [p \in LimitPrices |-> NewLimit(p)], orders |-> << >>,
                        takerData |-> NoOrderData, executions |-> << >>,
                        allOrders |-> {}]]

\* A residual or a new order rests: limits[p].addOrderToLimit(orderData, book, nextId)
AddOrderToLimit(p, c, n) ==
    /\ nextId <= MaxId
    /\ LET orderData == OrderData(c, "Buy", n, p)
           r == addOrderToLimit(limits[p], orders, orderData, nextId)
       IN /\ limits' = [limits EXCEPT ![p] = r.lim]
          /\ orders' = r.ord
          /\ allOrders' = addOrderToAllOrders(allOrders, nextId)
          /\ call' = [op |-> "add", limit |-> p, thrown |-> FALSE, iterations |-> 0,
                      pre |-> Snapshot]
    /\ restedQty' = restedQty @@ (nextId :> n)
    /\ nextId' = nextId + 1
    /\ UNCHANGED <<executions, takerData, takerOrderId, fillLog>>

\* limits[p].processFill(td, id, book), the taker td entering the call
Fill(p, td, id) ==
    LET r == processFill(limits[p], orders, executions, fillLog, td, id)
    IN /\ limits' = [limits EXCEPT ![p] = r.lim]
       /\ orders' = r.ord
       /\ executions' = r.execs
       /\ fillLog' = r.log
       /\ takerData' = r.taker
       /\ takerOrderId' = id
       /\ call' = [op |-> "fill", limit |-> p, thrown |-> r.thrown,
                   iterations |-> r.iterations,
                   pre |-> [Snapshot EXCEPT !.takerData = td]]
       /\ UNCHANGED <<allOrders, restedQty>>

\* A new taker arrives and is matched against the level at price p.
ProcessFillNew(p, c, n, lp) ==
    /\ nextId <= MaxId
    /\ Fill(p, OrderData(c, "Sell", n, lp), nextId)
    /\ nextId' = nextId + 1

\* The taker of the previous call returned with shares left and is matched
\* against the next level.
ProcessFillNext(p) ==
    /\ call.op = "fill"
    /\ ~call.thrown
    /\ call.limit /= p
    /\ takerData.shares > 0
    /\ Fill(p, takerData, takerOrderId)
    /\ UNCHANGED nextId

\* Client ids are opaque and only compared for equality: a client that has not
\* been seen yet takes the smallest unused id.
SeenClients == {orders[o].clientId : o \in DOMAIN orders} \cup {takerData.clientId}
SubmittingClients == {c \in Clients : c = 1 \/ (c - 1) \in SeenClients}

Next ==
    \/ \E p \in LimitPrices, c \in SubmittingClients, n \in ShareQtys :
           AddOrderToLimit(p, c, n)
    \/ \E p \in LimitPrices, c \in SubmittingClients, n \in TakerShareQtys,
          lp \in TakerLimits :
           ProcessFillNew(p, c, n, lp)
    \/ \E p \in LimitPrices : ProcessFillNext(p)

Spec == Init /\ [][Next]_vars

\* ------------------------------------------------- notions the claims use
\* The orders reachable from o by following next links, in order.
RECURSIVE Queue(_, _)
Queue(ord, o) == IF o = Null THEN << >> ELSE <<o>> \o Queue(ord, ord[o].nextOrder)

RECURSIVE SumShares(_, _)
SumShares(ord, q) == IF q = << >> THEN 0 ELSE ord[Head(q)].shares + SumShares(ord, Tail(q))

QueueOf(p) == Queue(orders, limits[p].headOrder)
PreQueueOf(p) == Queue(call.pre.orders, call.pre.limits[p].headOrder)

\* The executions the last call appended.
NewExecutionIds == (Len(call.pre.executions) + 1)..Len(executions)

RECURSIVE SumOver(_, _)
SumOver(f, S) == IF S = {} THEN 0
                 ELSE LET x == CHOOSE y \in S : TRUE IN f[x] + SumOver(f, S \ {x})

ExecSizeSum(S) == SumOver([i \in S |-> executions[i].execSize], S)
ExecValueSum(S) == SumOver([i \in S |-> executions[i].execPrice * executions[i].execSize], S)

\* ----------------------------------------------------------------- C1
\* C1: after any sequence of addOrderToLimit and processFill calls (aborted
\* ones included) every Limit's size is the number of orders reachable from
\* headOrder through next links and its totalVolume is the sum of their shares.
C1_SizeAndVolume ==
    \A p \in LimitPrices :
        /\ limits[p].size = Len(QueueOf(p))
        /\ limits[p].totalVolume = SumShares(orders, QueueOf(p))

\* a call that aborted after a fill left a level with a partially drained queue
C1_Witness ==
    /\ call.op = "fill" /\ call.thrown
    /\ NewExecutionIds /= {}
    /\ Len(QueueOf(call.limit)) >= 1
    /\ Len(PreQueueOf(call.limit)) >= 2

\* ----------------------------------------------------------------- C2
\* C2: in every reachable state a Limit has size = 0 exactly when headOrder and
\* tailOrder are both null.
C2_EmptyIffNullEnds ==
    \A p \in LimitPrices :
        (limits[p].size = 0) <=> (limits[p].headOrder = Null /\ limits[p].tailOrder = Null)

\* ----------------------------------------------------------------- C3
\* C3: for every processFill call, normal or aborted, the execSize of the
\* Executions it appended add up to the decrease of the taker's shares, to the
\* increase of the taker's executedQuantity and to the decrease of the Limit's
\* totalVolume.
C3_Conservation ==
    call.op = "fill" =>
        LET filled == ExecSizeSum(NewExecutionIds) IN
        /\ filled = call.pre.takerData.shares - takerData.shares
        /\ filled = takerData.executedQuantity - call.pre.takerData.executedQuantity
        /\ filled = call.pre.limits[call.limit].totalVolume - limits[call.limit].totalVolume

\* a call that filled one maker completely and the next in part, exhausting
\* the taker and leaving volume at the level
C3_Witness ==
    /\ call.op = "fill"
    /\ Cardinality(NewExecutionIds) >= 2
    /\ takerData.shares = 0
    /\ limits[call.limit].totalVolume > 0

\* ----------------------------------------------------------------- C4
\* C4: addOrderToLimit places the new order at the tail; an order that arrived
\* later at a Limit is filled only after every order that arrived earlier at
\* that Limit has been filled completely; the Executions are queued in the
\* order in which the fills happened.
FullFillOf(j, o) ==
    /\ executions[j].makerOrderId = o
    /\ executions[j].execSize = fillLog[j].makerShares

C4_TimePriority ==
    /\ call.op = "add" =>
          /\ limits[call.limit].tailOrder = nextId - 1
          /\ QueueOf(call.limit) = PreQueueOf(call.limit) \o <<nextId - 1>>
    /\ \A i \in 1..Len(executions) :
          /\ executions[i].executionId = i
          /\ \A o \in DOMAIN orders :
                (/\ o < executions[i].makerOrderId
                 /\ orders[o].parentLimit = orders[executions[i].makerOrderId].parentLimit)
                => \E j \in 1..(i - 1) : FullFillOf(j, o)
          /\ \A j \in 1..(i - 1) :
                executions[j].takerOrderId = executions[i].takerOrderId
                => executions[j].takerCumQty < executions[i].takerCumQty

\* scenario S2: two orders at one price, the taker fills the first completely
\* and then the second in part
C4_Witness ==
    /\ Len(executions) = 2
    /\ executions[1].makerOrderId = 1 /\ FullFillOf(1, 1)
    /\ executions[2].makerOrderId = 2 /\ ~FullFillOf(2, 2)
    /\ orders[1].parentLimit = orders[2].parentLimit

\* ----------------------------------------------------------------- C5
\* C5: processFill called with a taker of the same client as the Limit's head
\* order fails with the self-trade error, appends no Execution and leaves the
\* Limit, every resting order and the taker's OrderData unchanged.
SelfTradeAtHead ==
    /\ call.op = "fill"
    /\ call.pre.limits[call.limit].headOrder /= Null
    /\ call.pre.orders[call.pre.limits[call.limit].headOrder].clientId
           = call.pre.takerData.clientId

C5_SelfTradeAtHead ==
    SelfTradeAtHead =>
        /\ call.thrown
        /\ executions = call.pre.executions
        /\ limits = call.pre.limits
        /\ orders = call.pre.orders
        /\ takerData = call.pre.takerData

C5_Witness ==
    /\ SelfTradeAtHead
    /\ limits[call.limit].size = 2
    /\ takerData.shares > 0

\* ----------------------------------------------------------------- C6
\* C6: when processFill meets an order of the taker's client after filling
\* k >= 1 makers of other clients, the k Executions stay in the queue, the k
\* makers stay removed from the Limit and the Limit is left with the
\* self-trading order as head, its shares unchanged.
C6_SelfTradeAfterFills ==
    (call.op = "fill" /\ call.thrown /\ NewExecutionIds /= {}) =>
        LET k == Cardinality(NewExecutionIds)
            p == call.limit
            pre == PreQueueOf(p)
            h == limits[p].headOrder
        IN /\ SubSeq(executions, 1, Len(call.pre.executions)) = call.pre.executions
           /\ k < Len(pre)
           /\ \A n \in 1..k :
                 /\ executions[Len(call.pre.executions) + n].makerOrderId = pre[n]
                 /\ executions[Len(call.pre.executions) + n].execSize
                        = call.pre.orders[pre[n]].shares
                 /\ call.pre.orders[pre[n]].clientId /= takerData.clientId
           /\ QueueOf(p) = SubSeq(pre, k + 1, Len(pre))
           /\ h = pre[k + 1]
           /\ orders[h].clientId = takerData.clientId
           /\ orders[h] = call.pre.orders[h]
           /\ limits[p].size = Len(pre) - k

\* scenario S5: bids of client 1 (2 shares) and client 2 (3 shares) at 100, a
\* taker of client 2 with 4 shares
C6_Witness ==
    /\ call.op = "fill" /\ call.thrown /\ call.limit = 100
    /\ call.pre.takerData.shares = 4
    /\ Len(executions) = 1
    /\ executions[1].execSize = 2 /\ executions[1].execPrice = 100
    /\ limits[100].size = 1 /\ limits[100].totalVolume = 3
    /\ QueueOf(100) = <<2>>
    /\ orders[2].clientId = 2 /\ orders[2].shares = 3
    /\ takerData.clientId = 2 /\ takerData.shares = 2

\* ----------------------------------------------------------------- C7
\* C7: an order is in the book's allOrders map exactly when it rests in the
\* queue of some Limit.
Resting(o) == \E p \in LimitPrices : \E n \in 1..Len(QueueOf(p)) : QueueOf(p)[n] = o

C7_IndexIffResting ==
    \A o \in DOMAIN orders : (o \in allOrders) <=> Resting(o)

\* ----------------------------------------------------------------- C8
\* C8: in every Execution makerAvgPrice and takerAvgPrice are the exact
\* volume-weighted average, sum of execPrice * execSize over sum of execSize,
\* of all fills of that maker order, respectively of that taker, up to and
\* including this Execution; a taker filling 5 at 101 and 5 at 103 has 102.
FillsOfMaker(i) == {j \in 1..i : executions[j].makerOrderId = executions[i].makerOrderId}
FillsOfTaker(i) == {j \in 1..i : executions[j].takerOrderId = executions[i].takerOrderId}

IsAverageOf(avg, S) ==
    /\ avg.den > 0
    /\ avg.num * ExecSizeSum(S) = avg.den * ExecValueSum(S)

C8_AveragePrices ==
    /\ NewAvgPrice(5, NewAvgPrice(0, FracInt(0), 5, 101, 5), 5, 103, 10) = FracInt(102)
    /\ \A i \in 1..Len(executions) :
          /\ IsAverageOf(executions[i].makerAvgPrice, FillsOfMaker(i))
          /\ IsAverageOf(executions[i].takerAvgPrice, FillsOfTaker(i))

\* ----------------------------------------------------------------- C9
\* C9: every Execution has execSize = min(maker.shares, taker.shares) as they
\* were just before the fill and execPrice = the maker order's limit price,
\* whatever the taker's limit price.
C9_SizeAndPrice ==
    /\ Len(fillLog) = Len(executions)
    /\ \A i \in 1..Len(executions) :
          /\ executions[i].execSize = Min(fillLog[i].makerShares, fillLog[i].takerShares)
          /\ executions[i].execPrice = fillLog[i].makerLimit

\* a taker with limit 100 and fewer shares than the maker fills at the
\* maker's 101
C9_Witness ==
    \E i \in 1..Len(executions) :
        /\ fillLog[i].takerShares < fillLog[i].makerShares
        /\ fillLog[i].takerLimit /= fillLog[i].makerLimit
        /\ executions[i].execPrice = 101

\* ---------------------------------------------------------------- C10
\* C10: in every Execution each side's execution type is FullFill exactly when
\* that side's leaves quantity is 0 and PartialFill otherwise, and at least
\* one side is FullFill.
TypeAgrees(execType, leavesQty) ==
    /\ execType \in {"FullFill", "PartialFill"}
    /\ (execType = "FullFill") <=> (leavesQty = 0)

C10_ExecTypes ==
    \A i \in 1..Len(executions) :
        /\ TypeAgrees(executions[i].makerExecType, executions[i].makerLeavesQty)
        /\ TypeAgrees(executions[i].takerExecType, executions[i].takerLeavesQty)
        /\ executions[i].makerExecType = "FullFill" \/ executions[i].takerExecType = "FullFill"

\* scenario S1 scaled: the maker is filled in part and keeps shares, the taker
\* is filled completely; and a fill of the other kind precedes it
C10_Witness ==
    /\ Len(executions) = 2
    /\ executions[1].makerExecType = "FullFill" /\ executions[1].takerExecType = "PartialFill"
    /\ executions[1].takerLeavesQty > 0
    /\ executions[2].makerExecType = "PartialFill" /\ executions[2].takerExecType = "FullFill"
    /\ executions[2].makerLeavesQty > 0

\* ---------------------------------------------------------------- C11
\* C11: when processFill returns normally, the taker's shares are 0 or the
\* Limit is empty (size = 0 and headOrder null); it never returns with taker
\* shares left and an order still resting at the level.
C11_ExhaustedOrEmpty ==
    (call.op = "fill" /\ ~call.thrown) =>
        \/ takerData.shares = 0
        \/ /\ limits[call.limit].size = 0
           /\ limits[call.limit].headOrder = Null
           /\ QueueOf(call.limit) = << >>

\* a taker that emptied a level of two orders and has shares left
C11_Witness ==
    /\ call.op = "fill" /\ ~call.thrown
    /\ Len(PreQueueOf(call.limit)) = 2
    /\ limits[call.limit].size = 0
    /\ takerData.shares > 0

\* ---------------------------------------------------------------- C12
\* C12: every processFill call terminates after at most n loop iterations,
\* n the number of orders resting at the Limit, because every iteration
\* removes the head order, brings the taker's shares to 0 or aborts with the
\* self-trade error.
C12_BoundedIterations ==
    call.op = "fill" =>
        /\ call.iterations <= Len(PreQueueOf(call.limit))
        /\ call.iterations = Cardinality(NewExecutionIds) + (IF call.thrown THEN 1 ELSE 0)
        /\ \A i \in NewExecutionIds :
              \/ executions[i].execSize = fillLog[i].makerShares
              \/ executions[i].execSize = fillLog[i].takerShares

\* a call that used both iterations a level of two orders allows: one fill
\* and the abort
C12_Witness ==
    /\ call.op = "fill" /\ call.thrown
    /\ Len(PreQueueOf(call.limit)) = 2
    /\ call.iterations = 2

\* ---------------------------------------------------------------- C13
\* C13: with orders added with shares > 0 and takers with shares > 0, every
\* Execution has execSize > 0, and the cumulative quantities that divide in
\* the average-price update are never 0.
C13_PositiveExecSize ==
    \A i \in 1..Len(executions) :
        /\ fillLog[i].makerShares > 0 /\ fillLog[i].takerShares > 0
        /\ executions[i].execSize > 0
        /\ executions[i].makerCumQty > 0
        /\ executions[i].takerCumQty > 0

\* the smallest fill, of a maker that had been filled in part before
C13_Witness ==
    \E i \in 1..Len(executions) :
        /\ executions[i].execSize = 1
        /\ executions[i].makerCumQty > 1
        /\ executions[i].takerCumQty = 1

\* ---------------------------------------------------------------- C14
\* C14: every order in a Limit's queue has shares > 0: a partial fill leaves
\* the maker a positive remainder, and a maker whose remainder would be 0 is
\* unlinked in the same step.
C14_RestingSharesPositive ==
    \A p \in LimitPrices : \A n \in 1..Len(QueueOf(p)) : orders[QueueOf(p)[n]].shares > 0

\* a maker filled in part that still rests, behind it another order
C14_Witness ==
    \E p \in LimitPrices :
        /\ Len(QueueOf(p)) = 2
        /\ orders[QueueOf(p)[1]].executedQuantity > 0
        /\ orders[QueueOf(p)[1]].shares = 1

\* ---------------------------------------------------------------- C15
\* C15: in every Execution makerLeavesQty is the shares the maker order holds
\* once the fill has been applied (0 for a maker that was removed) and
\* takerLeavesQty is the taker's shares once the fill has been applied; the
\* stored shares of a maker that was filled completely are 0.
LaterFillsOfMaker(i) ==
    {j \in (i + 1)..Len(executions) : executions[j].makerOrderId = executions[i].makerOrderId}
LaterFillsOfTaker(i) ==
    {j \in (i + 1)..Len(executions) : executions[j].takerOrderId = executions[i].takerOrderId}
FirstOf(S) == CHOOSE j \in S : \A k \in S : j <= k

C15_LeavesQty ==
    \A i \in 1..Len(executions) :
        /\ IF LaterFillsOfMaker(i) = {}
           THEN orders[executions[i].makerOrderId].shares = executions[i].makerLeavesQty
           ELSE fillLog[FirstOf(LaterFillsOfMaker(i))].makerShares = executions[i].makerLeavesQty
        /\ IF LaterFillsOfTaker(i) = {}
           THEN executions[i].takerOrderId = takerOrderId
                => takerData.shares = executions[i].takerLeavesQty
           ELSE fillLog[FirstOf(LaterFillsOfTaker(i))].takerShares = executions[i].takerLeavesQty

\* ---------------------------------------------------------------- C16
\* C16: in every Execution makerClientId is the clientId of the resting maker
\* order and takerClientId the clientId of the incoming taker.
C16_ClientIds ==
    \A i \in 1..Len(executions) :
        /\ executions[i].makerClientId = fillLog[i].makerClient
        /\ executions[i].takerClientId = fillLog[i].takerClient

\* ---------------------------------------------------------------- C17
\* C17: over the Executions of one processFill call takerCumQty +
\* takerLeavesQty is the taker's executedQuantity + shares at entry, and over
\* all Executions that name a maker order makerCumQty + makerLeavesQty is the
\* executedQuantity + shares the order had when it was added to the Limit.
C17_CumPlusLeaves ==
    /\ call.op = "fill" =>
          \A i \in NewExecutionIds :
              executions[i].takerCumQty + executions[i].takerLeavesQty
                  = call.pre.takerData.executedQuantity + call.pre.takerData.shares
    /\ \A i \in 1..Len(executions) :
          executions[i].makerCumQty + executions[i].makerLeavesQty
              = restedQty[executions[i].makerOrderId]

\* a call with two Executions: the first maker filled completely, the second
\* in part
C17_Witness ==
    /\ call.op = "fill"
    /\ Cardinality(NewExecutionIds) = 2
    /\ \E i \in NewExecutionIds :
          /\ executions[i].makerLeavesQty > 0
          /\ executions[i].takerCumQty > executions[i].execSize
          /\ executions[i].takerLeavesQty = 0

\* ---------------------------------------------------------------- C18
\* C18: the queue of a Limit stays a well-formed doubly-linked list: the head
\* order has no predecessor, the tail order has no successor, and no link
\* reachable from headOrder or tailOrder refers to an order that was filled
\* completely and unlinked.
RestingOrNull(o) == o = Null \/ Resting(o)

C18_WellFormedList ==
    \A p \in LimitPrices :
        /\ limits[p].headOrder /= Null => orders[limits[p].headOrder].prevOrder = Null
        /\ limits[p].tailOrder /= Null => orders[limits[p].tailOrder].nextOrder = Null
        /\ RestingOrNull(limits[p].tailOrder)
        /\ \A n \in 1..Len(QueueOf(p)) :
              /\ RestingOrNull(orders[QueueOf(p)[n]].prevOrder)
              /\ RestingOrNull(orders[QueueOf(p)[n]].nextOrder)

\* ---------------------------------------------------------------- C19
\* C19: processFill changes only a prefix of the queue: at most one resting
\* order is left filled in part by a call, and it is the new head; every order
\* behind the last maker named in an Execution keeps its shares,
\* executedQuantity, avgPrice and relative position; addOrderToLimit changes
\* no existing order's shares or relative order.
Quantities(o) == [shares |-> o.shares, executedQuantity |-> o.executedQuantity,
                  avgPrice |-> o.avgPrice]

\* the sequence q without the element x
RECURSIVE Without(_, _)
Without(q, x) == IF q = << >> THEN << >>
                 ELSE IF Head(q) = x THEN Without(Tail(q), x)
                 ELSE <<Head(q)>> \o Without(Tail(q), x)

IsSuffix(q, r) == Len(q) <= Len(r) /\ q = SubSeq(r, Len(r) - Len(q) + 1, Len(r))

C19_PrefixOnly ==
    /\ call.op = "fill" =>
          LET p == call.limit
              pre == PreQueueOf(p)
              k == Cardinality(NewExecutionIds)
              changed == {o \in DOMAIN orders :
                             /\ Resting(o)
                             /\ Quantities(orders[o]) /= Quantities(call.pre.orders[o])}
          IN /\ k <= Len(pre)
             /\ \A n \in 1..k :
                   executions[Len(call.pre.executions) + n].makerOrderId = pre[n]
             /\ \A n \in (k + 1)..Len(pre) :
                   Quantities(orders[pre[n]]) = Quantities(call.pre.orders[pre[n]])
             /\ IsSuffix(QueueOf(p), pre)
             /\ Len(QueueOf(p)) >= Len(pre) - k
             /\ Cardinality(changed) <= 1
             /\ \A o \in changed : o = limits[p].headOrder
             /\ \A q \in LimitPrices \ {p} :
                   /\ QueueOf(q) = PreQueueOf(q)
                   /\ \A n \in 1..Len(QueueOf(q)) :
                         orders[QueueOf(q)[n]] = call.pre.orders[QueueOf(q)[n]]
    /\ call.op = "add" =>
          /\ \A o \in DOMAIN call.pre.orders :
                Quantities(orders[o]) = Quantities(call.pre.orders[o])
          /\ \A q \in LimitPrices : Without(QueueOf(q), nextId - 1) = PreQueueOf(q)

\* a taker filled the first of two orders in part: the head has
\* changed, the order behind it has not
C19_Witness ==
    /\ call.op = "fill" /\ ~call.thrown
    /\ Len(QueueOf(call.limit)) = 2
    /\ QueueOf(call.limit) = PreQueueOf(call.limit)
    /\ orders[limits[call.limit].headOrder].shares
           < call.pre.orders[limits[call.limit].headOrder].shares

====
